---- MODULE Spec2Model ----
(***************************************************************************)
(* State-machine model of foboshi/blp:                                     *)
(*   src/train.py                 eval_link_prediction, link_prediction,   *)
(*                                train_linker                             *)
(*   src/data/wikidata5m/fetch.py get_retry, retrieve_pages                *)
(*                                                                         *)
(* Four programs are modelled, each with its own specification:            *)
(*   SpecEval    one or two calls of eval_link_prediction on free inputs   *)
(*   SpecLP      the command link_prediction (which calls the evaluator)   *)
(*   SpecLinker  the command train_linker                                  *)
(*   SpecFetch   retrieve_pages of the fetch script                        *)
(* Metrics are exact rationals <<numerator, denominator>> in lowest terms  *)
(* (the code uses Python floats; rounding is not modelled).                *)
(***************************************************************************)
EXTENDS Integers, Sequences, FiniteSets, TLC

VARIABLES
    \* ---- the model object and one activation of eval_link_prediction ----
    num_entities,     \* model.num_entities
    theta,            \* version of the model parameters (bumped by optimizer.step)
    loader,           \* the loader argument: the sequence of batches it yields
    batch_size,       \* loader.batch_size
    is_text,          \* isinstance(loader.dataset, TextGraphDataset)
    max_num_batches,  \* the argument; None is modelled as NoneVal
    prefix,           \* the argument prefix
    eval_epoch,       \* the argument epoch
    epc,              \* position inside eval_link_prediction
    idx,              \* local idx of the cache loop
    ent_emb,          \* local ent_emb: row -> parameter version that encoded it
    has_emb,          \* FALSE when ent_emb is None
    hits,             \* local hits
    mrr,              \* local mrr
    batch_count,      \* local batch_count
    i,                \* local i of enumerate(loader)
    error,            \* the exception that left the running program, or "none"
    logged,           \* the calls _run.log_scalar received, in order
    \* ---- history of the evaluator (not read by the program) ----
    call_id,          \* number of eval_link_prediction calls entered so far
    emb_call,         \* the call that allocated the current ent_emb
    writes,           \* row -> number of writes to it in the current call
    chunks,           \* the chunks <<lo, hi>> the cache loop visited, in order
    scoreLog,         \* the scoring steps: which table each one read
    builds,           \* the completed table builds <<prefix, epoch>>, in order
    \* ---- the caller of the evaluator in SpecEval ----
    dataset,          \* the evaluation triples of the first call, in feed order
    \* ---- link_prediction ----
    lpc,              \* position inside link_prediction
    max_epochs,       \* config value max_epochs
    n_train,          \* len(train_loader)
    train_eval_loader,
    valid_loader,
    test_loader,
    epoch,            \* loop variable epoch
    step,             \* loop variable step
    batch_ops,        \* operations applied to the current training batch
    sched_steps,      \* number of scheduler.step() calls
    opt_steps,        \* number of optimizer.step() calls
    evals,            \* history: <<prefix, epoch, scheduler steps at entry>>
    \* ---- train_linker ----
    tpc,              \* position inside train_linker
    t_num_ents,       \* dataset.num_ents
    t_len_loader,     \* len(loader)
    t_i,              \* loop variable i
    t_j,              \* loop variable j
    ent_embs,         \* local ent_embs: the entity it embeds (NoneVal before)
    grad,             \* accumulated gradients: set of contributions <<i, j>>
    t_ops,            \* operations of the current outer iteration
    t_steps,          \* the gradient each optimizer.step() applied, in order
    \* ---- retrieve_pages ----
    fpc,              \* position inside retrieve_pages
    entities,         \* the list entities read from the input file
    world,            \* what the two web services know of each entity id
    f_i,              \* loop variable i
    ent_pages,        \* local ent_pages, as <<line, entity>> pairs
    extracts,         \* local extracts: the titles that have an extract
    redir_titles,     \* local redir_titles: the titles it maps (to their target)
    pending,          \* extracts of this request the service has not sent yet
    out_file,         \* lines written to descriptions-<in>, as <<line, entity>>
    no_wifi_file,     \* lines written to no-wiki-<in>, as <<line, entity>>
    fetched_count,
    no_wiki_count,
    sleeps,           \* number of time.sleep(delay) calls of get_retry
    f_error           \* the exception that left retrieve_pages, or "none"

evalVars == <<num_entities, theta, loader, batch_size, is_text, max_num_batches,
              prefix, eval_epoch, epc, idx, ent_emb, has_emb, hits, mrr,
              batch_count, i, error, logged, call_id, emb_call, writes, chunks,
              scoreLog, builds>>
lpVars == <<lpc, max_epochs, n_train, train_eval_loader, valid_loader,
            test_loader, epoch, step, batch_ops, sched_steps, opt_steps, evals>>
linkerVars == <<tpc, t_num_ents, t_len_loader, t_i, t_j, ent_embs, grad, t_ops,
               t_steps>>
fetchVars == <<fpc, entities, world, f_i, ent_pages, extracts, redir_titles,
               pending, out_file,
               no_wifi_file, fetched_count, no_wiki_count, sleeps, f_error>>
vars == <<evalVars, dataset, lpVars, linkerVars, fetchVars>>

\* everything eval_link_prediction cannot touch
nonEval == <<dataset, lpVars, linkerVars, fetchVars>>

-----------------------------------------------------------------------------
(* Bounds of the model *)

MaxEntities == 12      \* SpecEval: num_entities ranges over 0..MaxEntities
MaxBatchSize == 3      \* SpecEval: loader.batch_size ranges over 1..MaxBatchSize
MaxTriples == 3        \* SpecEval: at most this many (distinct) evaluation triples
MaxNumBatches == 1     \* SpecEval: max_num_batches is None or in 0..MaxNumBatches

NoneVal == -1          \* Python's None where an integer is expected

-----------------------------------------------------------------------------
(* Exact rational arithmetic *)

RECURSIVE GCD(_, _)
GCD(a, b) == IF b = 0 THEN a ELSE GCD(b, a % b)

Norm(n, d) == LET g == GCD(n, d) IN <<n \div g, d \div g>>

RAdd(a, b) == Norm(a[1] * b[2] + b[1] * a[2], a[2] * b[2])

RDivInt(a, n) == Norm(a[1], a[2] * n)

Zero == <<0, 1>>

Min(a, b) == IF a < b THEN a ELSE b

-----------------------------------------------------------------------------
(* The model's ranking of a triple, and the two metric helpers of utils *)

RankSeq == <<1, 2, 11>>

\* rank of the true head among model.energy_eval(all_ents, tail, rel, ent_emb)
HeadRank(t) == RankSeq[((t - 1) % 3) + 1]

\* rank of the true tail among model.energy_eval(head, all_ents, rel, ent_emb)
TailRank(t) == RankSeq[(((t - 1) \div 3) % 3) + 1]

\* ranks of torch.cat((tail, head)) of a batch: tails first, then heads
RanksOf(batch) == [k \in 1..(2 * Len(batch)) |->
                     IF k <= Len(batch) THEN TailRank(batch[k])
                     ELSE HeadRank(batch[k - Len(batch)])]

\* the sum of 1/ranks[k] for k in lo..hi (halving keeps the recursion shallow)
RECURSIVE SumRecipRange(_, _, _)
SumRecipRange(ranks, lo, hi) ==
    IF lo > hi THEN Zero
    ELSE IF lo = hi THEN <<1, ranks[lo]>>
    ELSE LET mid == (lo + hi) \div 2
         IN RAdd(SumRecipRange(ranks, lo, mid), SumRecipRange(ranks, mid + 1, hi))

SumRecip(ranks) == SumRecipRange(ranks, 1, Len(ranks))

\* utils.hit_at_k(pred_ents, true_ents, k): the batch mean of [rank <= k]
hit_at_k(batch, k) ==
    LET ranks == RanksOf(batch)
    IN Norm(Cardinality({n \in 1..Len(ranks) : ranks[n] <= k}), Len(ranks))

\* utils.mrr(pred_ents, true_ents): the batch mean of 1/rank
mrr_of(batch) == LET ranks == RanksOf(batch)
                 IN RDivInt(SumRecip(ranks), Len(ranks))

\* DataLoader(dataset, batch_size=b): consecutive batches, the last one short
RECURSIVE Batches(_, _)
Batches(ts, b) == IF ts = <<>> THEN <<>>
                  ELSE <<SubSeq(ts, 1, Min(b, Len(ts)))>>
                       \o Batches(SubSeq(ts, Min(b, Len(ts)) + 1, Len(ts)), b)

\* the number of entities a set of triples needs for its ranks to exist
RECURSIVE NeedEnts(_)
NeedEnts(ts) == IF ts = <<>> THEN 0
                ELSE LET r == NeedEnts(Tail(ts))
                         m == IF HeadRank(Head(ts)) > TailRank(Head(ts))
                              THEN HeadRank(Head(ts)) ELSE TailRank(Head(ts))
                     IN IF m > r THEN m ELSE r

-----------------------------------------------------------------------------
(* eval_link_prediction *)

\* torch.zeros((model.num_entities, model.dim)): version 0 marks a zero row
ZeroTable(n) == [r \in 0..(n - 1) |-> 0]

\* lines 38-42 and 54-55, as a caching bug would have them: a table that
\* exists already is kept and the cache loop is skipped
TableSetup_KeepsOldTable(text) ==
    IF text /\ has_emb
    THEN /\ UNCHANGED <<ent_emb, has_emb, emb_call>>
         /\ idx' = num_entities
         /\ epc' = "loop"
    ELSE /\ ent_emb' = ZeroTable(num_entities)
         /\ has_emb' = text
         /\ emb_call' = call_id + 1
         /\ idx' = 0
         /\ epc' = IF text THEN "cache" ELSE "loop"

\* lines 38-42 and 54-55: a text dataset gets a fresh zero table to fill,
\* any other dataset gets ent_emb = None
TableSetup(text) ==
    IF text
    THEN /\ ent_emb' = ZeroTable(num_entities)
         /\ has_emb' = TRUE
         /\ emb_call' = call_id + 1
         /\ idx' = 0
         /\ epc' = "cache"
    ELSE /\ ent_emb' = <<>>
         /\ has_emb' = FALSE
         /\ emb_call' = 0
         /\ idx' = 0
         /\ epc' = "loop"

\* lines 30-42 and 54-57: entry of the function up to the head of its first loop
EvalEnter(ldr, bs, text, mnb, pfx, ep) ==
    /\ loader' = ldr
    /\ batch_size' = bs
    /\ is_text' = text
    /\ max_num_batches' = mnb
    /\ prefix' = pfx
    /\ eval_epoch' = ep
    /\ hits' = Zero
    /\ mrr' = Zero
    /\ call_id' = call_id + 1
    /\ i' = 0
    /\ batch_count' = 0
    /\ chunks' = <<>>
    /\ writes' = ZeroTable(num_entities)
    /\ TableSetup(text)
    /\ UNCHANGED <<num_entities, logged, scoreLog, builds>>

\* the rows ent_emb[idx:idx + loader.batch_size] selects (slices clip at the end)
ChunkRows == idx..(Min(idx + batch_size, num_entities) - 1)

\* line 51, as an off-by-one would have it
NextIdx_SkipsARow == idx + batch_size + 1

\* line 51
NextIdx == idx + batch_size

\* lines 43-51: one iteration of the cache loop
CacheChunk ==
    /\ UNCHANGED nonEval
    /\ epc = "cache"
    /\ idx < num_entities
    /\ ent_emb' = [r \in DOMAIN ent_emb |->
                     IF r \in ChunkRows THEN theta ELSE ent_emb[r]]
    /\ writes' = [r \in DOMAIN writes |->
                     IF r \in ChunkRows THEN writes[r] + 1 ELSE writes[r]]
    /\ chunks' = Append(chunks, <<idx, Min(idx + batch_size, num_entities)>>)
    /\ idx' = NextIdx
    /\ UNCHANGED <<num_entities, theta, loader, batch_size, is_text,
                   max_num_batches, prefix, eval_epoch, epc, has_emb, hits, mrr,
                   batch_count, i, error, logged, call_id, emb_call, scoreLog,
                   builds>>

\* lines 43, 53, 57: the cache loop ends, the table is complete
CacheDone ==
    /\ UNCHANGED nonEval
    /\ epc = "cache"
    /\ ~(idx < num_entities)
    /\ epc' = "loop"
    /\ builds' = Append(builds, <<prefix, eval_epoch>>)
    /\ UNCHANGED <<num_entities, theta, loader, batch_size, is_text,
                   max_num_batches, prefix, eval_epoch, idx, ent_emb, has_emb,
                   hits, mrr, batch_count, i, error, logged, call_id, emb_call,
                   writes, chunks, scoreLog>>

\* lines 58-60: the loop over the loader stops here
LoopEnds == \/ i = Len(loader)
            \/ (max_num_batches # NoneVal /\ i = max_num_batches)

\* lines 72-73: the running sums after one more batch
AddBatch(acc, m) == RAdd(acc, m)

\* lines 62-74: one batch is scored against all entities
EvalBatch ==
    /\ UNCHANGED nonEval
    /\ epc = "loop"
    /\ ~LoopEnds
    /\ scoreLog' = scoreLog \cup
          {[call |-> call_id, table |-> IF has_emb THEN emb_call ELSE 0,
            rows |-> IF has_emb THEN {ent_emb[r] : r \in DOMAIN ent_emb} ELSE {},
            params |-> theta]}
    /\ hits' = AddBatch(hits, hit_at_k(loader[i + 1], 10))
    /\ mrr' = AddBatch(mrr, mrr_of(loader[i + 1]))
    /\ batch_count' = batch_count + 1
    /\ i' = i + 1
    /\ UNCHANGED <<num_entities, theta, loader, batch_size, is_text,
                   max_num_batches, prefix, eval_epoch, epc, idx, ent_emb,
                   has_emb, error, logged, call_id, emb_call, writes, chunks,
                   builds>>

\* what hits / batch_count and mrr / batch_count raise
DivisionError == "ZeroDivisionError"

\* lines 76-77: the loop has ended; the sums are divided by batch_count
EvalDivide ==
    /\ UNCHANGED nonEval
    /\ epc = "loop"
    /\ LoopEnds
    /\ IF batch_count = 0
       THEN /\ epc' = "raised"
            /\ error' = DivisionError
            /\ UNCHANGED <<hits, mrr>>
       ELSE /\ epc' = "log"
            /\ hits' = RDivInt(hits, batch_count)
            /\ mrr' = RDivInt(mrr, batch_count)
            /\ UNCHANGED error
    /\ UNCHANGED <<num_entities, theta, loader, batch_size, is_text,
                   max_num_batches, prefix, eval_epoch, idx, ent_emb, has_emb,
                   batch_count, i, logged, call_id, emb_call, writes, chunks,
                   scoreLog, builds>>

\* lines 79-81: the two metrics are logged and the function returns
EvalLog ==
    /\ UNCHANGED nonEval
    /\ epc = "log"
    /\ logged' = logged \o <<[name |-> "mrr", prefix |-> prefix,
                              value |-> mrr, epoch |-> eval_epoch],
                             [name |-> "hits@10", prefix |-> prefix,
                              value |-> hits, epoch |-> eval_epoch]>>
    /\ epc' = "returned"
    /\ UNCHANGED <<num_entities, theta, loader, batch_size, is_text,
                   max_num_batches, prefix, eval_epoch, idx, ent_emb, has_emb,
                   hits, mrr, batch_count, i, error, call_id, emb_call, writes,
                   chunks, scoreLog, builds>>

-----------------------------------------------------------------------------
(* Values of the programs a specification does not run *)

EvalIdle ==
    /\ num_entities = 0 /\ theta = 1 /\ loader = <<>> /\ batch_size = 1
    /\ is_text = TRUE /\ max_num_batches = NoneVal /\ prefix = ""
    /\ eval_epoch = 0

EvalLocalsInit ==
    /\ epc = "idle" /\ idx = 0 /\ ent_emb = <<>> /\ has_emb = FALSE
    /\ hits = Zero /\ mrr = Zero /\ batch_count = 0 /\ i = 0 /\ error = "none"
    /\ logged = <<>> /\ call_id = 0 /\ emb_call = 0 /\ writes = <<>>
    /\ chunks = <<>> /\ scoreLog = {} /\ builds = <<>>

LPIdle ==
    /\ lpc = "off" /\ max_epochs = 0 /\ n_train = 0 /\ train_eval_loader = <<>>
    /\ valid_loader = <<>> /\ test_loader = <<>> /\ epoch = 0 /\ step = 0
    /\ batch_ops = <<>> /\ sched_steps = 0 /\ opt_steps = 0 /\ evals = <<>>

LinkerIdle ==
    /\ tpc = "off" /\ t_num_ents = 0 /\ t_len_loader = 0 /\ t_i = 0 /\ t_j = 0
    /\ ent_embs = NoneVal
    /\ grad = {} /\ t_ops = <<>> /\ t_steps = <<>>

FetchIdle ==
    /\ fpc = "off" /\ entities = <<>> /\ world = <<>> /\ f_i = 0
    /\ ent_pages = <<>> /\ extracts = {} /\ redir_titles = {} /\ pending = {}
    /\ out_file = <<>>
    /\ no_wifi_file = <<>> /\ fetched_count = 0 /\ no_wiki_count = 0
    /\ sleeps = 0 /\ f_error = "none"

-----------------------------------------------------------------------------
(* SpecEval: eval_link_prediction called on free inputs, then called again   *)
(* with the same model, batch size and triples fed in another order          *)

\* the evaluation sets: sequences of distinct triples
TripleSeqs == {s \in UNION {[1..n -> 1..MaxTriples] : n \in 0..MaxTriples} :
                 \A a, b \in DOMAIN s : a # b => s[a] # s[b]}

\* every order in which the triples of ts can be fed
Orders(ts) == {[k \in DOMAIN ts |-> ts[p[k]]] : p \in Permutations(DOMAIN ts)}

InitEval ==
    /\ dataset \in TripleSeqs
    /\ num_entities \in NeedEnts(dataset)..MaxEntities
    /\ batch_size \in 1..MaxBatchSize
    /\ is_text \in BOOLEAN
    /\ max_num_batches \in {NoneVal} \cup 0..MaxNumBatches
    /\ theta = 1
    /\ loader = Batches(dataset, batch_size)
    /\ prefix = "valid"
    /\ eval_epoch = 1
    /\ EvalLocalsInit
    /\ LPIdle /\ LinkerIdle /\ FetchIdle

\* the first call
EvalFirst ==
    /\ epc = "idle"
    /\ EvalEnter(loader, batch_size, is_text, max_num_batches, prefix, eval_epoch)
    /\ UNCHANGED <<theta, error, nonEval>>

\* the second call: same model, same triples, any feed order
EvalAgain ==
    /\ epc = "returned"
    /\ call_id = 1
    /\ \E ts \in Orders(dataset) :
          EvalEnter(Batches(ts, batch_size), batch_size, is_text,
                    max_num_batches, prefix, eval_epoch)
    /\ UNCHANGED <<theta, error, nonEval>>

NextEval == \/ EvalFirst \/ EvalAgain
            \/ CacheChunk \/ CacheDone \/ EvalBatch \/ EvalDivide \/ EvalLog

SpecEval == InitEval /\ [][NextEval]_vars

-----------------------------------------------------------------------------
(* Claims about eval_link_prediction, checked under SpecEval *)

\* C1: the cache loop visits the chunks [idx, min(idx+B, N)) in strictly
\* ascending order, the chunks are pairwise disjoint, and once the loop has
\* ended every row of [0, N) has been written exactly once (with the current
\* parameters), the short last chunk included.
C1_ChunksCoverTableOnce ==
    has_emb =>
      /\ \A k \in 1..Len(chunks) :
            /\ chunks[k][1] < chunks[k][2]
            /\ chunks[k][2] = Min(chunks[k][1] + batch_size, num_entities)
      /\ \A k, l \in 1..Len(chunks) : k < l => chunks[k][2] <= chunks[l][1]
      /\ epc \notin {"idle", "cache"} =>
            \A r \in 0..(num_entities - 1) : writes[r] = 1 /\ ent_emb[r] = theta

\* C1 witness: a finished build of several chunks whose last chunk is short
C1_Witness ==
    /\ has_emb /\ epc = "loop"
    /\ Len(chunks) >= 2
    /\ num_entities % batch_size # 0
    /\ chunks[Len(chunks)][2] - chunks[Len(chunks)][1] < batch_size

\* C2 (as claimed): a call that processed zero batches ends with
\* EmptyLoaderError and has logged no metric.
C2_ZeroBatchesRaiseEmptyLoaderError ==
    (epc \in {"log", "returned", "raised"} /\ batch_count = 0) =>
        (epc = "raised" /\ error = "EmptyLoaderError" /\ logged = <<>>)

RECURSIVE Flatten(_)
Flatten(bs) == IF bs = <<>> THEN <<>> ELSE Head(bs) \o Flatten(Tail(bs))

\* the triples the loop over the loader evaluated
Evaluated == Flatten(SubSeq(loader, 1, batch_count))

\* C3 (as claimed): the reported MRR is the mean of 1/rank over all head and
\* tail substitutions of all evaluated triples, and the reported Hits@10 is
\* the fraction of those substitutions with rank <= 10, however the triples
\* are split into batches.
C3_ReportsMeansOverAllSubstitutions ==
    epc \in {"log", "returned"} =>
        /\ mrr = mrr_of(Evaluated)
        /\ hits = hit_at_k(Evaluated, 10)

\* C4 (as claimed): with a fixed model, batch size and no max_num_batches,
\* two evaluations of the same triples fed in different orders report the
\* same MRR and the same Hits@10.
C4_ReportIndependentOfFeedOrder ==
    (call_id = 2 /\ epc = "returned" /\ max_num_batches = NoneVal) =>
        /\ logged[3].value = logged[1].value
        /\ logged[4].value = logged[2].value

-----------------------------------------------------------------------------
(* link_prediction *)

TRAIN_BATCH_SIZE == 32    \* DataLoader(dataset, batch_size=32, shuffle=True, ...)
EVAL_BATCH_SIZE == 128    \* DataLoader(..., batch_size=128), the three eval loaders

MaxEpochs == 2            \* max_epochs ranges over 0..MaxEpochs
MaxTrainBatches == 1      \* the training split holds up to this many full batches
MaxEvalBatches == 1       \* so do the valid and test splits, and the entity list

\* sizes around the multiples of a batch size: c full batches, or one item more
Sizes(b, maxFull) == {b * c + d : c \in 0..maxFull, d \in {0, 1}}

\* len(DataLoader(dataset, batch_size=b)) for a dataset of n items
NumBatches(n, b) == (n + b - 1) \div b

\* an evaluation split of n triples (all the same triple: link_prediction's
\* claims do not read the metric values)
Split(n) == [k \in 1..n |-> 1]

evalLocals == <<loader, batch_size, is_text, max_num_batches, prefix, eval_epoch,
                epc, idx, ent_emb, has_emb, hits, mrr, batch_count, i, logged,
                call_id, emb_call, writes, chunks, scoreLog, builds>>

InitLP ==
    /\ max_epochs \in 0..MaxEpochs
    /\ \E d \in Sizes(TRAIN_BATCH_SIZE, MaxTrainBatches),
          v \in Sizes(EVAL_BATCH_SIZE, MaxEvalBatches),
          t \in Sizes(EVAL_BATCH_SIZE, MaxEvalBatches) :
          /\ n_train = NumBatches(d, TRAIN_BATCH_SIZE)
          /\ train_eval_loader = Batches(Split(d), EVAL_BATCH_SIZE)
          /\ valid_loader = Batches(Split(v), EVAL_BATCH_SIZE)
          /\ test_loader = Batches(Split(t), EVAL_BATCH_SIZE)
          /\ num_entities \in {n \in Sizes(EVAL_BATCH_SIZE, MaxEvalBatches) :
                                 d + v + t > 0 => n >= NeedEnts(Split(1))}
    /\ lpc = "epoch_head"
    /\ epoch = 0 /\ step = 0 /\ batch_ops = <<>>
    /\ sched_steps = 0 /\ opt_steps = 0 /\ evals = <<>>
    /\ theta = 1
    /\ loader = <<>> /\ batch_size = EVAL_BATCH_SIZE /\ is_text = TRUE
    /\ max_num_batches = NoneVal /\ prefix = "" /\ eval_epoch = 0
    /\ EvalLocalsInit
    /\ dataset = <<>>
    /\ LinkerIdle /\ FetchIdle

lpFrame == <<dataset, linkerVars, fetchVars, max_epochs, n_train,
             train_eval_loader, valid_loader, test_loader>>

\* line 120 as an off-by-one would have it: range(1, max_epochs + 2)
MoreEpochs_OneTooMany == epoch < max_epochs + 1

\* line 120: range(1, max_epochs + 1) has another value
MoreEpochs == epoch < max_epochs

\* lines 120-121: the next epoch starts
LPEpochBegin ==
    /\ lpc = "epoch_head"
    /\ MoreEpochs
    /\ epoch' = epoch + 1
    /\ step' = 0
    /\ lpc' = "batch_head"
    /\ UNCHANGED <<lpFrame, batch_ops, sched_steps, opt_steps, evals,
                   num_entities, theta, error, evalLocals>>

\* lines 122-123: the next batch is drawn and the loss computed
LPForward ==
    /\ lpc = "batch_head"
    /\ step < n_train
    /\ batch_ops' = <<"forward">>
    /\ lpc' = "zero_grad"
    /\ UNCHANGED <<lpFrame, epoch, step, sched_steps, opt_steps, evals,
                   num_entities, theta, error, evalLocals>>

\* line 125
LPZeroGrad ==
    /\ lpc = "zero_grad"
    /\ batch_ops' = Append(batch_ops, "zero_grad")
    /\ lpc' = "backward"
    /\ UNCHANGED <<lpFrame, epoch, step, sched_steps, opt_steps, evals,
                   num_entities, theta, error, evalLocals>>

\* line 126
LPBackward ==
    /\ lpc = "backward"
    /\ batch_ops' = Append(batch_ops, "backward")
    /\ lpc' = "opt_step"
    /\ UNCHANGED <<lpFrame, epoch, step, sched_steps, opt_steps, evals,
                   num_entities, theta, error, evalLocals>>

\* line 127: optimizer.step() changes the parameters
LPOptimizerStep ==
    /\ lpc = "opt_step"
    /\ batch_ops' = Append(batch_ops, "optimizer.step")
    /\ opt_steps' = opt_steps + 1
    /\ theta' = theta + 1
    /\ lpc' = "sched_step"
    /\ UNCHANGED <<lpFrame, epoch, step, sched_steps, evals,
                   num_entities, error, evalLocals>>

\* lines 128-135: scheduler.step(), the loss is added up and logged
LPSchedulerStep ==
    /\ lpc = "sched_step"
    /\ batch_ops' = Append(batch_ops, "scheduler.step")
    /\ sched_steps' = sched_steps + 1
    /\ step' = step + 1
    /\ lpc' = "batch_head"
    /\ UNCHANGED <<lpFrame, epoch, opt_steps, evals,
                   num_entities, theta, error, evalLocals>>

\* lines 137-141: the epoch's batches are done; train_loss / len(train_loader)
\* is logged and the evaluation on a sample of the training set is called
LPEvalTrain ==
    /\ lpc = "batch_head"
    /\ step = n_train
    /\ IF n_train = 0
       THEN /\ lpc' = "raised"
            /\ error' = DivisionError
            /\ UNCHANGED <<evals, evalLocals>>
       ELSE /\ lpc' = "eval_train"
            /\ evals' = Append(evals, <<"train", epoch, sched_steps>>)
            /\ EvalEnter(train_eval_loader, EVAL_BATCH_SIZE, TRUE,
                         Len(valid_loader), "train", epoch)
            /\ UNCHANGED error
    /\ UNCHANGED <<lpFrame, epoch, step, batch_ops, sched_steps, opt_steps,
                   num_entities, theta>>

\* lines 143-144: the evaluation on the validation set is called
LPEvalValid ==
    /\ lpc = "eval_train"
    /\ epc = "returned"
    /\ lpc' = "eval_valid"
    /\ evals' = Append(evals, <<"valid", epoch, sched_steps>>)
    /\ EvalEnter(valid_loader, EVAL_BATCH_SIZE, TRUE, NoneVal, "valid", epoch)
    /\ UNCHANGED <<lpFrame, epoch, step, batch_ops, sched_steps, opt_steps,
                   theta, error>>

\* line 144 returns: back to the head of the loop over the epochs
LPEpochEnd ==
    /\ lpc = "eval_valid"
    /\ epc = "returned"
    /\ lpc' = "epoch_head"
    /\ UNCHANGED <<lpFrame, epoch, step, batch_ops, sched_steps, opt_steps,
                   evals, num_entities, theta, error, evalLocals>>

\* lines 146-147: the epochs are over, the evaluation on the test set is called
LPEvalTest ==
    /\ lpc = "epoch_head"
    /\ ~MoreEpochs
    /\ lpc' = "eval_test"
    /\ evals' = Append(evals, <<"test", max_epochs, sched_steps>>)
    /\ EvalEnter(test_loader, EVAL_BATCH_SIZE, TRUE, NoneVal, "test", max_epochs)
    /\ UNCHANGED <<lpFrame, epoch, step, batch_ops, sched_steps, opt_steps,
                   theta, error>>

\* line 147 returns: link_prediction returns
LPReturn ==
    /\ lpc = "eval_test"
    /\ epc = "returned"
    /\ lpc' = "done"
    /\ UNCHANGED <<lpFrame, epoch, step, batch_ops, sched_steps, opt_steps,
                   evals, num_entities, theta, error, evalLocals>>

\* an exception of eval_link_prediction is not caught: it ends link_prediction
LPRaise ==
    /\ lpc \in {"eval_train", "eval_valid", "eval_test"}
    /\ epc = "raised"
    /\ lpc' = "raised"
    /\ UNCHANGED <<lpFrame, epoch, step, batch_ops, sched_steps, opt_steps,
                   evals, num_entities, theta, error, evalLocals>>

NextLP == \/ LPEpochBegin \/ LPForward \/ LPZeroGrad \/ LPBackward
          \/ LPOptimizerStep \/ LPSchedulerStep \/ LPEvalTrain \/ LPEvalValid
          \/ LPEpochEnd \/ LPEvalTest \/ LPReturn \/ LPRaise
          \/ CacheChunk \/ CacheDone \/ EvalBatch \/ EvalDivide \/ EvalLog

SpecLP == InitLP /\ [][NextLP]_vars

-----------------------------------------------------------------------------
(* Claims about link_prediction, checked under SpecLP *)

\* C5: every scoring step of an evaluation reads a table that was allocated in
\* the same eval_link_prediction call and whose rows were all encoded with the
\* parameters current at that scoring step (no optimizer step between the
\* build of a table and its use); no table is read by a later call or epoch.
C5_ScoringReadsOwnFreshTable ==
    /\ \A s \in scoreLog : s.table = s.call /\ s.rows = {s.params}
    /\ (has_emb /\ epc \in {"cache", "loop"}) =>
          /\ emb_call = call_id
          /\ \A r \in DOMAIN ent_emb : writes[r] = 1 => ent_emb[r] = theta

\* C5 witness: a scoring step of a later evaluation call, after training steps
C5_Witness ==
    /\ lpc = "eval_valid"
    /\ epoch = 2
    /\ \E s \in scoreLog : s.call = 4 /\ s.table = 4 /\ s.params = theta
    /\ theta > 2

\* the table builds tagged with training epoch e
BuildsOfEpoch(e) == {k \in DOMAIN builds : builds[k][2] = e /\ builds[k][1] # "test"}

\* the epochs whose validation evaluation has returned
CompletedEpochs == {e \in 1..epoch : e < epoch \/ lpc \in {"epoch_head", "eval_test", "done"}}

\* C6 (as claimed): the table is computed exactly once per training epoch and
\* that one table serves every evaluation run of the epoch.
C6_OneTablePerEpoch ==
    /\ \A e \in 1..epoch : Cardinality(BuildsOfEpoch(e)) <= 1
    /\ \A e \in CompletedEpochs : Cardinality(BuildsOfEpoch(e)) = 1

\* C6 (amended): the table is computed once per evaluation call: the k-th
\* build belongs to the k-th call, every completed training epoch has built
\* two tables (train-sample evaluation, then validation evaluation), the test
\* evaluation builds one more, and no table serves more than one call.
C6_OneTablePerEvaluationCall ==
    /\ Len(builds) = call_id - (IF epc = "cache" THEN 1 ELSE 0)
    /\ \A k \in DOMAIN builds : builds[k] = <<evals[k][1], evals[k][2]>>
    /\ \A e \in CompletedEpochs :
          \E k \in DOMAIN builds :
             /\ builds[k] = <<"train", e>>
             /\ builds[k + 1] = <<"valid", e>>
             /\ BuildsOfEpoch(e) = {k, k + 1}
    /\ lpc = "done" => builds[Len(builds)] = <<"test", max_epochs>>
    /\ \A s \in scoreLog : s.table = s.call

\* C6 witness: link_prediction has returned after two epochs: five tables
C6_Witness ==
    /\ lpc = "done"
    /\ epoch = 2
    /\ Len(builds) = 5

FullBatchOps == <<"forward", "zero_grad", "backward", "optimizer.step",
                  "scheduler.step">>

TestEvals == {k \in DOMAIN evals : evals[k][1] = "test"}

\* C10: every training batch gets exactly one zero_grad, backward,
\* optimizer.step, scheduler.step, in that order; no evaluation starts or runs
\* between the batches of an epoch; when link_prediction returns the scheduler
\* has been stepped len(train_loader) * max_epochs times; the test evaluation
\* is called at most once, exactly once on return, and it follows the last
\* epoch's validation evaluation.
C10_TrainingSchedule ==
    /\ batch_ops = SubSeq(FullBatchOps, 1, Len(batch_ops))
    /\ (lpc = "batch_head" /\ step > 0) => batch_ops = FullBatchOps
    /\ lpc = "batch_head" =>
          /\ sched_steps = (epoch - 1) * n_train + step
          /\ opt_steps = sched_steps
    /\ \A k \in DOMAIN evals : evals[k][3] = evals[k][2] * n_train
    /\ epc \in {"cache", "loop", "log"} =>
          lpc \in {"eval_train", "eval_valid", "eval_test"}
    /\ lpc = "done" => sched_steps = n_train * max_epochs
    /\ Cardinality(TestEvals) <= 1
    /\ lpc \in {"eval_test", "done"} => TestEvals = {Len(evals)}
    /\ \A k \in TestEvals :
          /\ k = Len(evals)
          /\ max_epochs > 0 => (k > 1 /\ evals[k - 1][1] = "valid"
                                      /\ evals[k - 1][2] = max_epochs)

\* C10 witness: link_prediction has returned after two epochs of two batches
C10_Witness ==
    /\ lpc = "done"
    /\ max_epochs = 2
    /\ n_train = 2
    /\ sched_steps = 4

-----------------------------------------------------------------------------
(* train_linker *)

MaxLinkerEnts == 4       \* dataset.num_ents ranges over 0..MaxLinkerEnts
MaxLinkerBatches == 3    \* len(loader) ranges over 0..MaxLinkerBatches

InitLinker ==
    /\ t_num_ents \in 0..MaxLinkerEnts
    /\ t_len_loader \in 0..MaxLinkerBatches
    /\ t_num_ents = 0 => t_len_loader = 0     \* triples need entities
    /\ tpc = "outer"
    /\ t_i = 0 /\ t_j = 0 /\ ent_embs = NoneVal
    /\ grad = {} /\ t_ops = <<>> /\ t_steps = <<>>
    /\ EvalIdle /\ EvalLocalsInit /\ dataset = <<>>
    /\ LPIdle /\ FetchIdle

nonLinker == <<evalVars, dataset, lpVars, fetchVars, t_num_ents, t_len_loader>>

\* lines 192-200: the next entity's description goes through the aligner
TLAligner ==
    /\ tpc = "outer"
    /\ t_i < t_num_ents
    /\ ent_embs' = t_i
    /\ t_j' = 0
    /\ t_ops' = <<"aligner">>
    /\ tpc' = "inner"
    /\ UNCHANGED <<nonLinker, t_i, grad, t_steps>>

\* lines 203-210: the loss of one batch is computed with ent_embs and
\* back-propagated; its gradient adds to the accumulated one
TLBackward ==
    /\ tpc = "inner"
    /\ t_j < t_len_loader
    /\ grad' = grad \cup {<<ent_embs, t_j>>}
    /\ t_j' = t_j + 1
    /\ t_ops' = Append(t_ops, "backward")
    /\ UNCHANGED <<nonLinker, tpc, t_i, ent_embs, t_steps>>

\* lines 212-231: the pass is over; the gradient range is printed and the
\* optimizer applies the accumulated gradient
TLOptimizerStep ==
    /\ tpc = "inner"
    /\ t_j = t_len_loader
    /\ t_steps' = Append(t_steps, grad)
    /\ t_ops' = Append(t_ops, "optimizer.step")
    /\ tpc' = "zero_grad"
    /\ UNCHANGED <<nonLinker, t_i, t_j, ent_embs, grad>>

\* line 232 left out: the gradients stay
GradAfterZeroGrad_Kept == grad

\* line 232: what optimizer.zero_grad() leaves of the accumulated gradient
GradAfterZeroGrad == {}

\* line 232, then line 192 advances i
TLZeroGrad ==
    /\ tpc = "zero_grad"
    /\ grad' = GradAfterZeroGrad
    /\ t_ops' = Append(t_ops, "zero_grad")
    /\ t_i' = t_i + 1
    /\ tpc' = "outer"
    /\ UNCHANGED <<nonLinker, t_j, ent_embs, t_steps>>

\* line 192: range(dataset.num_ents) is exhausted, train_linker returns
TLReturn ==
    /\ tpc = "outer"
    /\ t_i = t_num_ents
    /\ tpc' = "done"
    /\ UNCHANGED <<nonLinker, t_i, t_j, ent_embs, grad, t_ops, t_steps>>

NextLinker == TLAligner \/ TLBackward \/ TLOptimizerStep \/ TLZeroGrad \/ TLReturn

SpecLinker == InitLinker /\ [][NextLinker]_vars

-----------------------------------------------------------------------------
(* Claims about train_linker, checked under SpecLinker *)

\* the operations of one complete outer iteration over a loader of n batches
IterationOps(n) == <<"aligner">> \o [k \in 1..n |-> "backward"]
                   \o <<"optimizer.step", "zero_grad">>

\* C7: for every entity the aligned embedding is computed once, then every
\* batch of one pass over the loader is back-propagated, then exactly one
\* optimizer step and a gradient reset follow; no optimizer step happens
\* inside the pass, and the gradients accumulated at the start of an entity's
\* pass hold no contribution of an earlier entity.
C7_OneStepPerEntityOnItsOwnGradient ==
    /\ t_ops = SubSeq(IterationOps(t_len_loader), 1, Len(t_ops))
    /\ (tpc \in {"outer", "done"} /\ t_i > 0) => t_ops = IterationOps(t_len_loader)
    /\ Len(t_steps) = t_i + (IF tpc = "zero_grad" THEN 1 ELSE 0)
    /\ (tpc = "inner" /\ t_j = 0) => grad = {}
    /\ \A c \in grad : c[1] = t_i
    /\ \A k \in DOMAIN t_steps :
          t_steps[k] = {<<k - 1, j>> : j \in 0..(t_len_loader - 1)}
    /\ tpc = "done" => Len(t_steps) = t_num_ents

\* C7 witness: train_linker has returned after several entities and batches
C7_Witness ==
    /\ tpc = "done"
    /\ t_num_ents >= 2
    /\ t_len_loader >= 2
    /\ Len(t_steps) = t_num_ents

-----------------------------------------------------------------------------
(* retrieve_pages of data/wikidata5m/fetch.py *)

MAX_ENTITIES == 50     \* Maximum number of entities allowed by Wiki APIs

MaxFetchChunks == 1    \* the input holds up to this many full chunks, or a line more
MaxIds == 3            \* the input lines cycle through the entity ids 1..MaxIds
MaxSleeps == 2         \* connection failures that get_retry sleeps through

\* What the services hold for an entity id:
\*   "missing"    Wikidata: 'missing', or no enwiki sitelink
\*   "page"       a sitelink whose page has an extract
\*   "redirect"   a sitelink whose title redirects to the page with the extract
\*   "noextract"  a sitelink, but Wikipedia returns no extract for it
Outcomes == {"missing", "page", "redirect", "noextract"}

\* the enwiki title of entity e, and the title a redirecting title leads to
TitleOf(e) == e
RedirectTarget(t) == -t

InitFetch ==
    /\ \E n \in Sizes(MAX_ENTITIES, MaxFetchChunks) :
          entities = [k \in 1..n |-> ((k - 1) % MaxIds) + 1]
    /\ world \in [1..MaxIds -> Outcomes]
    /\ fpc = "wikidata"
    /\ f_i = 0
    /\ ent_pages = <<>> /\ extracts = {} /\ redir_titles = {} /\ pending = {}
    /\ out_file = <<>> /\ no_wifi_file = <<>>
    /\ fetched_count = 0 /\ no_wiki_count = 0
    /\ sleeps = 0 /\ f_error = "none"
    /\ EvalIdle /\ EvalLocalsInit /\ dataset = <<>>
    /\ LPIdle /\ LinkerIdle

nonFetch == <<evalVars, dataset, lpVars, linkerVars, entities, world>>

\* line 72 with the slice one short
ToFetch_DropsLast == (f_i + 1)..Min(f_i + MAX_ENTITIES - 1, Len(entities))

\* line 72: the lines of entities[i:i + MAX_ENTITIES]
ToFetch == (f_i + 1)..Min(f_i + MAX_ENTITIES, Len(entities))

\* the <<line, entity>> pairs of the lines in S, in line order
RECURSIVE LinesOf(_)
LinesOf(S) == IF S = {} THEN <<>>
              ELSE LET k == CHOOSE x \in S : \A y \in S : x <= y
                   IN <<<<k, entities[k]>>>> \o LinesOf(S \ {k})

\* lines 44-49, the except branch: requests.get raised ConnectionError,
\* get_retry sleeps and tries again (here for the Wikidata request, line 76)
FWikidataRetry ==
    /\ fpc = "wikidata"
    /\ f_i < Len(entities)
    /\ sleeps < MaxSleeps
    /\ sleeps' = sleeps + 1
    /\ UNCHANGED <<nonFetch, fpc, f_i, ent_pages, extracts, redir_titles,
                   pending, out_file, no_wifi_file, fetched_count,
                   no_wiki_count, f_error>>

\* lines 70-91: the Wikidata request returned; the entities with an enwiki
\* page go to ent_pages, the others to the no-wiki file
FWikidata ==
    /\ fpc = "wikidata"
    /\ f_i < Len(entities)
    /\ LET has == {k \in ToFetch : world[entities[k]] # "missing"}
           hasnot == {k \in ToFetch : world[entities[k]] = "missing"}
       IN /\ ent_pages' = LinesOf(has)
          /\ no_wifi_file' = no_wifi_file \o LinesOf(hasnot)
          /\ no_wiki_count' = no_wiki_count + Cardinality(hasnot)
    /\ fpc' = "wikipedia"
    /\ UNCHANGED <<nonFetch, f_i, extracts, redir_titles, pending, out_file,
                   fetched_count, sleeps, f_error>>

\* lines 44-49 again, for the first Wikipedia request (line 95)
FWikipediaRetry ==
    /\ fpc = "wikipedia"
    /\ sleeps < MaxSleeps
    /\ sleeps' = sleeps + 1
    /\ UNCHANGED <<nonFetch, fpc, f_i, ent_pages, extracts, redir_titles,
                   pending, out_file, no_wifi_file, fetched_count,
                   no_wiki_count, f_error>>

\* the titles of this chunk whose extract Wikipedia can return
Available ==
    {TitleOf(ent_pages[k][2]) : k \in {n \in DOMAIN ent_pages :
                                  world[ent_pages[n][2]] = "page"}}
    \cup {RedirectTarget(TitleOf(ent_pages[k][2])) :
             k \in {n \in DOMAIN ent_pages : world[ent_pages[n][2]] = "redirect"}}

\* the titles of this chunk that redirect
Redirecting ==
    {TitleOf(ent_pages[k][2]) : k \in {n \in DOMAIN ent_pages :
                                  world[ent_pages[n][2]] = "redirect"}}

\* lines 92-102: the first Wikipedia response. It carries some of the
\* extracts (the rest follows on continuation) and, possibly, the redirects.
\* A request without titles may come back without 'query': KeyError.
FWikipedia ==
    /\ fpc = "wikipedia"
    /\ \/ /\ ent_pages = <<>>
          /\ fpc' = "raised"
          /\ f_error' = "KeyError"
          /\ UNCHANGED <<extracts, redir_titles, pending>>
       \/ /\ \E sent \in SUBSET Available, redirs \in {{}, Redirecting} :
                /\ extracts' = sent
                /\ pending' = Available \ sent
                /\ redir_titles' = redirs
          /\ fpc' = "paging"
          /\ UNCHANGED f_error
    /\ UNCHANGED <<nonFetch, f_i, ent_pages, out_file, no_wifi_file,
                   fetched_count, no_wiki_count, sleeps>>

\* lines 105-109: 'continue' is in text_data; the continuation is requested
\* with requests.get, so a ConnectionError leaves retrieve_pages
FContinue ==
    /\ fpc = "paging"
    /\ pending # {}
    /\ \/ /\ fpc' = "raised"
          /\ f_error' = "ConnectionError"
          /\ UNCHANGED <<extracts, pending>>
       \/ /\ \E sent \in SUBSET pending :
                /\ sent # {}
                /\ extracts' = extracts \cup sent
                /\ pending' = pending \ sent
          /\ UNCHANGED <<fpc, f_error>>
    /\ UNCHANGED <<nonFetch, f_i, ent_pages, redir_titles, out_file,
                   no_wifi_file, fetched_count, no_wiki_count, sleeps>>

\* lines 114-115: the title after a known redirect
FinalTitle(t) == IF t \in redir_titles THEN RedirectTarget(t) ELSE t

\* lines 105, 111-124, then line 70 advances i: no 'continue' is left; every
\* pair of ent_pages goes to the descriptions file or to the no-wiki file
FSave ==
    /\ fpc = "paging"
    /\ pending = {}
    /\ LET Found(pr) == FinalTitle(TitleOf(pr[2])) \in extracts
           NotFound(pr) == ~Found(pr)
       IN /\ out_file' = out_file \o SelectSeq(ent_pages, Found)
          /\ fetched_count' = fetched_count + Len(SelectSeq(ent_pages, Found))
          /\ no_wifi_file' = no_wifi_file \o SelectSeq(ent_pages, NotFound)
          /\ no_wiki_count' = no_wiki_count + Len(SelectSeq(ent_pages, NotFound))
    /\ f_i' = f_i + MAX_ENTITIES
    /\ fpc' = "wikidata"
    /\ UNCHANGED <<nonFetch, ent_pages, extracts, redir_titles, pending, sleeps,
                   f_error>>

\* lines 70, 126-129: the range is exhausted, the counts are printed
FReturn ==
    /\ fpc = "wikidata"
    /\ ~(f_i < Len(entities))
    /\ fpc' = "done"
    /\ UNCHANGED <<nonFetch, f_i, ent_pages, extracts, redir_titles, pending,
                   out_file, no_wifi_file, fetched_count, no_wiki_count, sleeps,
                   f_error>>

NextFetch == \/ FWikidataRetry \/ FWikidata \/ FWikipediaRetry \/ FWikipedia
             \/ FContinue \/ FSave \/ FReturn

SpecFetch == InitFetch /\ [][NextFetch]_vars

-----------------------------------------------------------------------------
(* Claims about retrieve_pages, checked under SpecFetch *)

\* C8 (as claimed): a connection failure of any request of retrieve_pages,
\* the continuation requests included, is retried and never reaches the
\* caller of retrieve_pages.
C8_ConnectionFailureNeverRaised == f_error # "ConnectionError"

\* how often input line k occurs in a file
Occurrences(file, k) == Cardinality({n \in DOMAIN file : file[n][1] = k})

\* C9: when retrieve_pages completes, every input line has produced exactly
\* one output line, in the descriptions file or in the no-wiki file and not in
\* both, and fetched_count + no_wiki_count is the number of input entities.
C9_EveryLineWrittenOnce ==
    fpc = "done" =>
        /\ \A k \in DOMAIN entities :
              /\ Occurrences(out_file, k) + Occurrences(no_wifi_file, k) = 1
              /\ \A n \in DOMAIN out_file :
                    out_file[n][1] = k => out_file[n][2] = entities[k]
              /\ \A n \in DOMAIN no_wifi_file :
                    no_wifi_file[n][1] = k => no_wifi_file[n][2] = entities[k]
        /\ fetched_count = Len(out_file)
        /\ no_wiki_count = Len(no_wifi_file)
        /\ fetched_count + no_wiki_count = Len(entities)

\* C9 witness: a completed run over an input that is no multiple of
\* MAX_ENTITIES, with pages fetched and pages missing for both reasons
C9_Witness ==
    /\ fpc = "done"
    /\ Len(entities) % MAX_ENTITIES # 0
    /\ Len(entities) > MAX_ENTITIES
    /\ fetched_count > 0
    /\ \E k \in DOMAIN entities : world[entities[k]] = "missing"
    /\ \E k \in DOMAIN entities : world[entities[k]] = "noextract"

====
